---- MODULE Spec2Model ----
(***************************************************************************)
(* Model of the reservation coordination engine of app.py: the            *)
(* ReservationCoordinator (reservation table + per-call mailbox of        *)
(* pending updates), the agent functions that drive it and the end-of-call *)
(* webhook with its keyword classifier.                                    *)
(*                                                                         *)
(* Python values are modelled as follows.  Strings are TLA+ strings (TLC  *)
(* evaluates Len, \o and SubSeq on them), None is the sentinel string     *)
(* NoneVal, an Enum member of ReservationStatus is its NAME and .value is *)
(* the operator StatusValue.  A dict is a function whose DOMAIN is the    *)
(* set of keys present.  datetime.now() reads the variable clock.         *)
(***************************************************************************)
EXTENDS Integers, Sequences, FiniteSets, TLC

VARIABLES
    reservations,     \* active_reservations: reservation_id -> ReservationRequest
    pending_updates,  \* pending_updates: call_id -> list of status messages
    clock,            \* the wall clock read by datetime.now()
    last,             \* the last completed call: its name, addressee and result
    pre,              \* the two tables as they were when that call began
    threads           \* concurrent request handlers: position and locals of each

vars == <<reservations, pending_updates, clock, last, pre, threads>>

-----------------------------------------------------------------------------
(* Bounds of the model *)

MaxCalls == 3     \* calls that add to the tables: reservations created + updates accepted
NThreads == 2     \* concurrent handlers in the threaded specification
MaxClock == 2     \* largest value of the clock in the specification in which time passes
MaxNarrated == 2  \* updates made in the specification of the narration

-----------------------------------------------------------------------------
(* Python values *)

NoneVal == "<None>"

\* Python truthiness of an Optional[str]: None and "" are falsy
Truthy(x) == x # NoneVal /\ x # ""

\* ReservationStatus members, by name
ReservationStatus ==
    {"INITIATED", "CALLING_RESTAURANT", "SPEAKING_WITH_RESTAURANT",
     "CHECKING_AVAILABILITY", "CONFIRMED", "DECLINED", "RESTAURANT_BUSY",
     "NO_ANSWER", "ERROR"}

\* ReservationStatus.X.value
StatusValue(s) ==
    CASE s = "INITIATED" -> "initiated"
      [] s = "CALLING_RESTAURANT" -> "calling_restaurant"
      [] s = "SPEAKING_WITH_RESTAURANT" -> "speaking_with_restaurant"
      [] s = "CHECKING_AVAILABILITY" -> "checking_availability"
      [] s = "CONFIRMED" -> "confirmed"
      [] s = "DECLINED" -> "declined"
      [] s = "RESTAURANT_BUSY" -> "restaurant_busy"
      [] s = "NO_ANSWER" -> "no_answer"
      [] s = "ERROR" -> "error"

\* datetime.isoformat(): an injective rendering of the instant
IsoFormat(t) == <<"iso", t>>

\* the n-th identifier uuid4 draws
RidOf(n) ==
    CASE n = 1 -> "r1"
      [] n = 2 -> "r2"
      [] n = 3 -> "r3"
      [] n = 4 -> "r4"
      [] OTHER -> "r5"

\* mutant: the identifier generator returns an identifier already handed out
Uuid4_Reused(res) == "r1"

\* str(uuid.uuid4()): an identifier no existing reservation has.  The table
\* never shrinks, so the identifier after the ones drawn so far is fresh.
Uuid4(res) == RidOf(Cardinality(DOMAIN res) + 1)

\* dict helpers
DictSet(d, k, v) == [x \in DOMAIN d \cup {k} |-> IF x = k THEN v ELSE d[x]]
DictDel(d, k) == [x \in DOMAIN d \ {k} |-> d[x]]
DictGet(d, k, default) == IF k \in DOMAIN d THEN d[k] ELSE default

-----------------------------------------------------------------------------
(* Input sets *)

CallIds == {NoneVal, "", "in1", "out1"}          \* call_id of an update or a drain
InboundIds == {NoneVal, "", "in1"}               \* inbound_call_id at creation
OutboundIds == {"in1", "out1"}                   \* call_id given to set_outbound_call_id
UnknownRid == "nope"                             \* a reservation_id never handed out
StatusInputs == {"INITIATED", "CONFIRMED", "ERROR"}  \* status of a direct update
DetailInputs == {"table by the window"}
CustomerNames == {"Jane Doe"}

-----------------------------------------------------------------------------
(* ReservationRequest and ReservationCoordinator *)

\* ReservationRequest(...) with its defaults and __post_init__
ReservationRequest(rid, customer_name, inbound_call_id, now) ==
    [reservation_id |-> rid,
     customer_name |-> customer_name,
     phone_number |-> "+15550100",
     restaurant_name |-> "Test Restaurant",
     restaurant_phone |-> "+16266989990",
     date |-> "2025-01-01",
     time |-> "19:00",
     party_size |-> 2,
     special_requests |-> NoneVal,
     status |-> "INITIATED",
     inbound_call_id |-> inbound_call_id,
     outbound_call_id |-> NoneVal,
     created_at |-> now,
     updated_at |-> now,
     status_history |-> <<>>,
     transcript |-> "",
     confirmation_details |-> "",
     failure_reason |-> ""]

\* the entry _add_status_history appends
HistoryEntry(status, details, source, now) ==
    [timestamp |-> IsoFormat(now),
     status |-> StatusValue(status),
     details |-> details,
     source |-> source]

\* mutant: the entry overwrites the last one instead of extending the list
AddStatusHistory_ReplaceLast(res, rid, status, details, source, now) ==
    [res EXCEPT ![rid].status_history =
        SubSeq(@, 1, Len(@) - 1) \o <<HistoryEntry(status, details, source, now)>>]

\* mutant: the entry is inserted at the front of the history
AddStatusHistory_Prepend(res, rid, status, details, source, now) ==
    [res EXCEPT ![rid].status_history =
        <<HistoryEntry(status, details, source, now)>> \o @]

\* _add_status_history: reservation.status_history.append({...})
AddStatusHistory(res, rid, status, details, source, now) ==
    [res EXCEPT ![rid].status_history =
        Append(@, HistoryEntry(status, details, source, now))]

\* create_reservation: the table after the call (the id is Uuid4(res))
CreateReservation(res, customer_name, inbound_call_id, now) ==
    LET rid == Uuid4(res)
        stored == DictSet(res, rid,
                          ReservationRequest(rid, customer_name, inbound_call_id, now))
    IN AddStatusHistory(stored, rid, "INITIATED", "Reservation request created",
                        "system", now)

\* mutant: the comparison is made without testing that call_id is set
UpdateSource_NoTruthiness(r, call_id) ==
    IF call_id = r.outbound_call_id THEN "outbound_agent"
    ELSE IF call_id = r.inbound_call_id THEN "inbound_agent"
    ELSE "system"

\* update_reservation_status, "Track which call made this update"
UpdateSource(r, call_id) ==
    IF Truthy(call_id) /\ call_id = r.outbound_call_id THEN "outbound_agent"
    ELSE IF Truthy(call_id) /\ call_id = r.inbound_call_id THEN "inbound_agent"
    ELSE "system"

\* mutant: a busy line is narrated like an unanswered call
FormatStatusMessage_BusyAsNoAnswer(status, details, from_outbound) ==
    IF from_outbound
    THEN CASE status = "CALLING_RESTAURANT" -> "I'm calling the restaurant now. " \o details
           [] status = "SPEAKING_WITH_RESTAURANT" -> "I'm speaking with the restaurant. " \o details
           [] status = "CHECKING_AVAILABILITY" -> "The restaurant is checking availability. " \o details
           [] status = "CONFIRMED" -> "Great news! Your reservation is confirmed. " \o details
           [] status = "DECLINED" -> "I'm sorry, the restaurant cannot accommodate your request. " \o details
           [] status = "RESTAURANT_BUSY" -> "The restaurant is not answering. " \o details
           [] status = "NO_ANSWER" -> "The restaurant is not answering. " \o details
           [] status = "ERROR" -> "There was an issue with the booking. " \o details
           [] OTHER -> "Status update: " \o details
    ELSE CASE status = "INITIATED" -> "Customer update: " \o details
           [] OTHER -> "Status update: " \o details

\* _format_status_message
FormatStatusMessage(status, details, from_outbound) ==
    IF from_outbound
    THEN CASE status = "CALLING_RESTAURANT" -> "I'm calling the restaurant now. " \o details
           [] status = "SPEAKING_WITH_RESTAURANT" -> "I'm speaking with the restaurant. " \o details
           [] status = "CHECKING_AVAILABILITY" -> "The restaurant is checking availability. " \o details
           [] status = "CONFIRMED" -> "Great news! Your reservation is confirmed. " \o details
           [] status = "DECLINED" -> "I'm sorry, the restaurant cannot accommodate your request. " \o details
           [] status = "RESTAURANT_BUSY" -> "The restaurant line is busy. " \o details
           [] status = "NO_ANSWER" -> "The restaurant is not answering. " \o details
           [] status = "ERROR" -> "There was an issue with the booking. " \o details
           [] OTHER -> "Status update: " \o details
    ELSE CASE status = "INITIATED" -> "Customer update: " \o details
           [] OTHER -> "Status update: " \o details

\* mutant: the two branches are swapped, the update goes back to its sender
TargetCallId_Swapped(r, current_call_id) ==
    IF current_call_id = r.inbound_call_id THEN r.inbound_call_id
    ELSE IF current_call_id = r.outbound_call_id THEN r.outbound_call_id
    ELSE NoneVal

\* _queue_update_for_other_agent: target_call_id
TargetCallId(r, current_call_id) ==
    IF current_call_id = r.inbound_call_id THEN r.outbound_call_id
    ELSE IF current_call_id = r.outbound_call_id THEN r.inbound_call_id
    ELSE NoneVal

\* mutant: the message is inserted at the front of the list
EnqueueMessage_Prepend(pu, target, msg) ==
    DictSet(pu, target, <<msg>> \o DictGet(pu, target, <<>>))

\* list.append on the target's list, after the list was created when missing
EnqueueMessage(pu, target, msg) ==
    DictSet(pu, target, Append(DictGet(pu, target, <<>>), msg))

\* mutant: the message is put in the mailboxes of both calls of the reservation
QueueUpdateForOtherAgent_Both(pu, r, current_call_id, status, details) ==
    LET msg == FormatStatusMessage(status, details, current_call_id = r.outbound_call_id)
        both == {k \in {r.inbound_call_id, r.outbound_call_id} : Truthy(k)}
    IN [k \in DOMAIN pu \cup both |->
           IF k \in both THEN Append(DictGet(pu, k, <<>>), msg) ELSE pu[k]]

\* _queue_update_for_other_agent: the mailbox table after the call
QueueUpdateForOtherAgent(pu, r, current_call_id, status, details) ==
    LET target == TargetCallId(r, current_call_id)
    IN IF Truthy(target)
       THEN EnqueueMessage(pu, target,
                FormatStatusMessage(status, details,
                                    current_call_id = r.outbound_call_id))
       ELSE pu

\* mutant: the history entry is appended but reservation.status is not assigned
UpdateReservations_KeepStatus(res, rid, status, details, call_id, now) ==
    IF rid \notin DOMAIN res THEN res
    ELSE LET r1 == [res EXCEPT ![rid].updated_at = now]
         IN [r1 EXCEPT ![rid].status_history =
                Append(@, HistoryEntry(status, details,
                                       UpdateSource(r1[rid], call_id), now))]

\* update_reservation_status: the reservation table after the call
UpdateReservations(res, rid, status, details, call_id, now) ==
    IF rid \notin DOMAIN res THEN res
    ELSE LET r1 == [res EXCEPT ![rid].status = status, ![rid].updated_at = now]
         IN AddStatusHistory(r1, rid, status, details,
                             UpdateSource(r1[rid], call_id), now)

\* update_reservation_status: the mailbox table after the call
UpdatePending(res, pu, rid, status, details, call_id) ==
    IF rid \notin DOMAIN res THEN pu
    ELSE QueueUpdateForOtherAgent(pu, res[rid], call_id, status, details)

\* mutant: the call reports success whether or not the reservation exists
UpdateResult_AlwaysTrue(res, rid) == TRUE

\* update_reservation_status: the value returned
UpdateResult(res, rid) == rid \in DOMAIN res

\* get_pending_updates: the list returned
GetPendingUpdates(pu, call_id) == DictGet(pu, call_id, <<>>)

\* mutant: the list is returned but the entry is not deleted
ClearPendingUpdates_Keep(pu, call_id) == pu

\* mutant: a call without a mailbox is given an empty one
ClearPendingUpdates_CreatesEntry(pu, call_id) ==
    IF call_id \in DOMAIN pu THEN DictDel(pu, call_id) ELSE DictSet(pu, call_id, <<>>)

\* mutant: the list is emptied in place and its entry stays in the table
ClearPendingUpdates_LeavesEmpty(pu, call_id) ==
    IF call_id \in DOMAIN pu THEN DictSet(pu, call_id, <<>>) ELSE pu

\* get_pending_updates: the mailbox table after the call
ClearPendingUpdates(pu, call_id) ==
    IF call_id \in DOMAIN pu THEN DictDel(pu, call_id) ELSE pu

\* set_outbound_call_id that stores the id as the record's inbound call id
SetOutboundCallId_AsInbound(res, rid, call_id) ==
    IF rid \notin DOMAIN res THEN res
    ELSE [res EXCEPT ![rid].inbound_call_id = call_id]

\* set_outbound_call_id that keeps an outbound call id already attached
SetOutboundCallId_KeepsFirst(res, rid, call_id) ==
    IF rid \notin DOMAIN res THEN res
    ELSE IF res[rid].outbound_call_id # NoneVal THEN res
    ELSE [res EXCEPT ![rid].outbound_call_id = call_id]

\* set_outbound_call_id: the reservation table after the call
SetOutboundCallId(res, rid, call_id) ==
    IF rid \notin DOMAIN res THEN res
    ELSE [res EXCEPT ![rid].outbound_call_id = call_id]

Digit(d) ==
    CASE d = 0 -> "0" [] d = 1 -> "1" [] d = 2 -> "2" [] d = 3 -> "3" [] d = 4 -> "4"
      [] d = 5 -> "5" [] d = 6 -> "6" [] d = 7 -> "7" [] d = 8 -> "8" [] d = 9 -> "9"

\* f"{n}" of a non-negative int
RECURSIVE IntToStr(_)
IntToStr(n) == IF n < 10 THEN Digit(n) ELSE IntToStr(n \div 10) \o Digit(n % 10)

\* str.strip(): the string without its leading and trailing blanks and newlines
RECURSIVE Strip(_)
Strip(s) ==
    IF Len(s) = 0 THEN s
    ELSE IF SubSeq(s, 1, 1) \in {" ", "\n"} THEN Strip(SubSeq(s, 2, Len(s)))
    ELSE IF SubSeq(s, Len(s), Len(s)) \in {" ", "\n"} THEN Strip(SubSeq(s, 1, Len(s) - 1))
    ELSE s

\* get_reservation_details: the string returned
GetReservationDetails(res, rid) ==
    IF rid \notin DOMAIN res THEN "Error: Could not find reservation details."
    ELSE LET r == res[rid]
             details == "Reservation Details:\n- Customer: " \o r.customer_name
                        \o "\n- Date: " \o r.date \o "\n- Time: " \o r.time
                        \o "\n- Party Size: " \o IntToStr(r.party_size) \o " people"
         IN Strip(IF Truthy(r.special_requests)
                  THEN details \o "\n- Special Requests: " \o r.special_requests
                  ELSE details)

\* RestaurantAgent.check_reservation_status: the dict returned
CheckReservationStatus(res, rid) ==
    IF rid \notin DOMAIN res
    THEN [found |-> FALSE,
          message |-> "I couldn't find that reservation. It may have expired or the ID is incorrect."]
    ELSE LET r == res[rid] IN
         CASE r.status = "CALLING_RESTAURANT" ->
                  [found |-> TRUE, status |-> "calling",
                   message |-> "I'm still trying to reach " \o r.restaurant_name
                               \o ". Please hold on."]
           [] r.status = "SPEAKING_WITH_RESTAURANT" ->
                  [found |-> TRUE, status |-> "speaking",
                   message |-> "I'm currently speaking with " \o r.restaurant_name
                               \o " about your reservation."]
           [] r.status = "CHECKING_AVAILABILITY" ->
                  [found |-> TRUE, status |-> "checking",
                   message |-> "The restaurant is checking their availability for your requested time."]
           [] r.status = "CONFIRMED" ->
                  [found |-> TRUE, status |-> "confirmed",
                   message |-> "Great news! Your reservation at " \o r.restaurant_name
                               \o " is confirmed for " \o r.customer_name
                               \o ", party of " \o IntToStr(r.party_size)
                               \o " on " \o r.date \o " at " \o r.time \o ". "
                               \o "They have your phone number " \o r.phone_number
                               \o " on file. " \o r.confirmation_details]
           [] r.status = "DECLINED" ->
                  [found |-> TRUE, status |-> "declined",
                   message |-> "I couldn't make the reservation at " \o r.restaurant_name
                               \o ". " \o r.failure_reason
                               \o " Would you like me to try another restaurant?"]
           [] OTHER ->
                  [found |-> TRUE, status |-> StatusValue(r.status),
                   message |-> "The reservation status is: " \o StatusValue(r.status)]

-----------------------------------------------------------------------------
(* The record of the last completed call *)

\* key is the identifier the call was addressed to: a reservation_id, or the
\* call_id of get_pending_updates
NoCall == [op |-> "none", key |-> NoneVal, ret |-> NoneVal]

Call(op, key, ret) == [op |-> op, key |-> key, ret |-> ret]

\* the record of an update_reservation_status call, with the call_id it was given
UpdateCall(rid, call_id, ret) ==
    [op |-> "update_reservation_status", key |-> rid, ret |-> ret, call_id |-> call_id]

\* a completed set_outbound_call_id call, with the call id it was given
AttachCall(rid, call_id, ret) ==
    [op |-> "set_outbound_call_id", key |-> rid, ret |-> ret, call_id |-> call_id]

RECURSIVE SumUpdates(_, _)
SumUpdates(res, ids) ==
    IF ids = {} THEN 0
    ELSE LET i == CHOOSE x \in ids : TRUE
         IN (Len(res[i].status_history) - 1) + SumUpdates(res, ids \ {i})

\* accepted updates so far: every history starts with the creation entry
TotalUpdates(res) == SumUpdates(res, DOMAIN res)

\* the reservation ids a caller may name: the ones handed out and an unknown one
RidInputs(res) == DOMAIN res \cup {UnknownRid}

\* the tables as a call finds them
Snapshot == [reservations |-> reservations, pending_updates |-> pending_updates]

-----------------------------------------------------------------------------
(* Sequential specification: the coordinator's operations, one at a time *)

Init ==
    /\ reservations = <<>>
    /\ pending_updates = <<>>
    /\ clock = 0
    /\ last = NoCall
    /\ pre = [reservations |-> <<>>, pending_updates |-> <<>>]
    /\ threads = <<>>

\* calls made so far that added to the tables
Calls(res) == Cardinality(DOMAIN res) + TotalUpdates(res)

\* coordinator.create_reservation(...)
DoCreateReservation ==
    \E name \in CustomerNames, inbound \in InboundIds :
        /\ Calls(reservations) < MaxCalls
        /\ reservations' = CreateReservation(reservations, name, inbound, clock)
        /\ last' = Call("create_reservation", Uuid4(reservations), Uuid4(reservations))
        /\ pre' = Snapshot
        /\ UNCHANGED <<pending_updates, clock, threads>>

\* coordinator.update_reservation_status(rid, status, details, call_id)
DoUpdateReservationStatus ==
    \E rid \in RidInputs(reservations), status \in StatusInputs,
       details \in DetailInputs, call_id \in CallIds :
        /\ rid \in DOMAIN reservations => Calls(reservations) < MaxCalls
        /\ reservations' =
               UpdateReservations(reservations, rid, status, details, call_id, clock)
        /\ pending_updates' =
               UpdatePending(reservations, pending_updates, rid, status, details, call_id)
        /\ last' = UpdateCall(rid, call_id, UpdateResult(reservations, rid))
        /\ pre' = Snapshot
        /\ UNCHANGED <<clock, threads>>

\* coordinator.get_pending_updates(call_id)
DoGetPendingUpdates ==
    \E call_id \in CallIds :
        /\ pending_updates' = ClearPendingUpdates(pending_updates, call_id)
        /\ last' = Call("get_pending_updates", call_id,
                        GetPendingUpdates(pending_updates, call_id))
        /\ pre' = Snapshot
        /\ UNCHANGED <<reservations, clock, threads>>

\* coordinator.set_outbound_call_id(rid, call_id)
DoSetOutboundCallId ==
    \E rid \in RidInputs(reservations), call_id \in OutboundIds :
        /\ reservations' = SetOutboundCallId(reservations, rid, call_id)
        /\ last' = AttachCall(rid, call_id, rid \in DOMAIN reservations)
        /\ pre' = Snapshot
        /\ UNCHANGED <<pending_updates, clock, threads>>

\* agent.check_reservation_status(rid): reads the table, changes nothing
DoCheckReservationStatus ==
    \E rid \in RidInputs(reservations) :
        /\ last' = Call("check_reservation_status", rid,
                        CheckReservationStatus(reservations, rid))
        /\ pre' = Snapshot
        /\ UNCHANGED <<reservations, pending_updates, clock, threads>>

\* get_reservation_details(rid): reads the table, changes nothing
DoGetReservationDetails ==
    \E rid \in RidInputs(reservations) :
        /\ last' = Call("get_reservation_details", rid,
                        GetReservationDetails(reservations, rid))
        /\ pre' = Snapshot
        /\ UNCHANGED <<reservations, pending_updates, clock, threads>>

Next ==
    \/ DoCreateReservation
    \/ DoUpdateReservationStatus
    \/ DoGetPendingUpdates
    \/ DoSetOutboundCallId
    \/ DoCheckReservationStatus
    \/ DoGetReservationDetails

Spec == Init /\ [][Next]_vars

-----------------------------------------------------------------------------
(* The agent functions and the end-of-call webhook *)

\* the detail of the update make_reservation_call makes after a 200/201 answer
InitiatedDetails == "Outbound call initiated to Test Restaurant"

\* function-level calls so far that added to the tables: reservations created
\* and accepted updates other than the one make_reservation_call makes itself
AppCalls(res) ==
    Cardinality(DOMAIN res) + TotalUpdates(res)
    - Cardinality({rid \in DOMAIN res :
                      /\ Len(res[rid].status_history) >= 2
                      /\ res[rid].status_history[2].details = InitiatedDetails})

AttachCallInputs == {"out1", "in1"}       \* call_id given to start_restaurant_call
OutboundCallInputs == {"out1"}            \* call_id of the other outbound functions
InboundCallInputs == {"in1"}              \* call_id of create_new_reservation
InitiationOutcomes == {"created", "error_response", "exception"}
TranscriptInputs ==
    {"The table is confirmed, see you at 7!",
     "Sorry, we are fully booked tonight.",
     "Hello, thanks for calling."}
DurationInputs == {0}

\* str.lower() of one character
LowerChar(c) ==
    CASE c = "A" -> "a" [] c = "B" -> "b" [] c = "C" -> "c" [] c = "D" -> "d"
      [] c = "E" -> "e" [] c = "F" -> "f" [] c = "G" -> "g" [] c = "H" -> "h"
      [] c = "I" -> "i" [] c = "J" -> "j" [] c = "K" -> "k" [] c = "L" -> "l"
      [] c = "M" -> "m" [] c = "N" -> "n" [] c = "O" -> "o" [] c = "P" -> "p"
      [] c = "Q" -> "q" [] c = "R" -> "r" [] c = "S" -> "s" [] c = "T" -> "t"
      [] c = "U" -> "u" [] c = "V" -> "v" [] c = "W" -> "w" [] c = "X" -> "x"
      [] c = "Y" -> "y" [] c = "Z" -> "z" [] OTHER -> c

\* str.lower()
RECURSIVE Lower(_)
Lower(s) == IF Len(s) = 0 THEN "" ELSE LowerChar(SubSeq(s, 1, 1)) \o Lower(Tail(s))

\* keyword in text (substring test)
Contains(text, keyword) ==
    \E i \in 1..(Len(text) - Len(keyword) + 1) :
        SubSeq(text, i, i + Len(keyword) - 1) = keyword

confirmed_keywords == {"confirmed", "booked", "see you", "all set", "reservation for"}
failed_keywords == {"fully booked", "no availability", "closed", "cannot", "can't"}

\* mutant: the decline keywords are looked for first
ClassifyTranscript_DeclineFirst(transcript) ==
    LET transcript_lower == Lower(transcript) IN
    IF \E k \in failed_keywords : Contains(transcript_lower, k) THEN "DECLINED"
    ELSE IF \E k \in confirmed_keywords : Contains(transcript_lower, k) THEN "CONFIRMED"
    ELSE "ERROR"

\* mutant: a transcript without any keyword counts as a decline
ClassifyTranscript_DefaultDeclined(transcript) ==
    LET transcript_lower == Lower(transcript) IN
    IF \E k \in confirmed_keywords : Contains(transcript_lower, k) THEN "CONFIRMED"
    ELSE "DECLINED"

\* retell_call_webhook: the status the keyword analysis of the transcript gives
ClassifyTranscript(transcript) ==
    LET transcript_lower == Lower(transcript) IN
    IF \E k \in confirmed_keywords : Contains(transcript_lower, k) THEN "CONFIRMED"
    ELSE IF \E k \in failed_keywords : Contains(transcript_lower, k) THEN "DECLINED"
    ELSE "ERROR"

\* mutant: the customer name is looked for as written, case included
ConfirmationMsg_CaseSensitive(transcript, customer_name, duration_seconds) ==
    "The restaurant confirmed your reservation."
    \o (IF Contains(transcript, customer_name)
        THEN " They have the reservation under " \o customer_name \o "."
        ELSE "")
    \o " Call duration: " \o IntToStr(duration_seconds) \o " seconds."

\* retell_call_webhook: confirmation_msg
ConfirmationMsg(transcript, customer_name, duration_seconds) ==
    "The restaurant confirmed your reservation."
    \o (IF Contains(Lower(transcript), Lower(customer_name))
        THEN " They have the reservation under " \o customer_name \o "."
        ELSE "")
    \o " Call duration: " \o IntToStr(duration_seconds) \o " seconds."

\* retell_call_webhook: details passed to update_reservation_status
WebhookDetails(status) ==
    CASE status = "CONFIRMED" -> "Restaurant confirmed the reservation via phone call"
      [] status = "DECLINED" -> "Restaurant could not accommodate the reservation request"
      [] OTHER -> "Call ended but outcome unclear"

\* retell_call_webhook, call_ended of a known reservation: the table after
\* the update (made without a call_id) and the fields set on the record
WebhookReservations(res, rid, transcript, duration_seconds, now) ==
    LET status == ClassifyTranscript(transcript)
        upd == UpdateReservations(res, rid, status, WebhookDetails(status), NoneVal, now)
        noted ==
            CASE status = "CONFIRMED" ->
                     [upd EXCEPT ![rid].confirmation_details =
                         ConfirmationMsg(transcript, res[rid].customer_name,
                                         duration_seconds)]
              [] status = "DECLINED" ->
                     [upd EXCEPT ![rid].failure_reason =
                         "The restaurant couldn't accommodate your reservation request."]
              [] OTHER -> upd
    IN [noted EXCEPT ![rid].transcript = transcript]

\* retell_call_webhook, call_ended of a known reservation: the mailbox table
WebhookPending(res, pu, rid, transcript) ==
    UpdatePending(res, pu, rid, ClassifyTranscript(transcript),
                  WebhookDetails(ClassifyTranscript(transcript)), NoneVal)

\* mutant: the record is attached and set to CALLING_RESTAURANT whatever the
\* answer to the call-initiation request
MakeCallReservations_AlwaysCalling(res, customer_name, caller_call_id, outcome, outbound_call_id, now) ==
    LET rid == Uuid4(res)
        created == CreateReservation(res, customer_name, caller_call_id, now)
    IN UpdateReservations(SetOutboundCallId(created, rid, outbound_call_id), rid,
           "CALLING_RESTAURANT", InitiatedDetails, outbound_call_id, now)

\* make_reservation_call after the directory lookup: create_reservation, then
\* the call-initiation request; on a 200/201 answer set_outbound_call_id and
\* the update to CALLING_RESTAURANT with the new call's id
MakeCallReservations(res, customer_name, caller_call_id, outcome, outbound_call_id, now) ==
    LET rid == Uuid4(res)
        created == CreateReservation(res, customer_name, caller_call_id, now)
    IN IF outcome = "created"
       THEN UpdateReservations(SetOutboundCallId(created, rid, outbound_call_id), rid,
                "CALLING_RESTAURANT", InitiatedDetails,
                outbound_call_id, now)
       ELSE created

\* mutant: the update to CALLING_RESTAURANT notifies nobody
MakeCallPending_Silent(res, pu, customer_name, caller_call_id, outcome, outbound_call_id, now) == pu

MakeCallPending(res, pu, customer_name, caller_call_id, outcome, outbound_call_id, now) ==
    LET rid == Uuid4(res)
        created == CreateReservation(res, customer_name, caller_call_id, now)
    IN IF outcome = "created"
       THEN UpdatePending(SetOutboundCallId(created, rid, outbound_call_id), pu, rid,
                "CALLING_RESTAURANT", InitiatedDetails,
                outbound_call_id)
       ELSE pu

\* make_reservation_call: result['message']
MakeCallMessage(customer_name, outcome) ==
    CASE outcome = "created" ->
             "I'm calling Test Restaurant now to make a reservation for "
             \o customer_name \o ", party of 2 on 2025-01-01 at 19:00. "
             \o "I'll update you as soon as the call progresses. Please hold on."
      [] outcome = "error_response" ->
             "I encountered an error trying to call the restaurant. Would you like me to provide their number so you can call directly?"
      [] OTHER ->
             "I couldn't complete the call. Would you like the restaurant's phone number instead?"

\* check_reservation_status_updates: the fallback on the reservation's status
StatusFallback(status_value) ==
    CASE status_value = "calling_restaurant" ->
             "I'm still trying to reach the restaurant. Please hold on."
      [] status_value = "speaking_with_restaurant" ->
             "I'm currently speaking with the restaurant about your reservation."
      [] status_value = "checking_availability" ->
             "The restaurant is checking their availability for your requested time."
      [] status_value = "confirmed" -> "Your reservation has been confirmed!"
      [] status_value = "declined" ->
             "Unfortunately, the restaurant cannot accommodate your request."
      [] OTHER -> "I'm still working on your reservation. Let me continue checking."

\* get_reservation_by_call_id: the first reservation, in insertion order of
\* the dict, one of whose call ids is call_id; NoneVal when there is none
RECURSIVE FirstByCallId(_, _, _)
FirstByCallId(res, call_id, n) ==
    IF RidOf(n) \notin DOMAIN res THEN NoneVal
    ELSE IF res[RidOf(n)].inbound_call_id = call_id
            \/ res[RidOf(n)].outbound_call_id = call_id
         THEN RidOf(n)
         ELSE FirstByCallId(res, call_id, n + 1)

GetReservationByCallId(res, call_id) == FirstByCallId(res, call_id, 1)

\* check_reservation_status_updates: the message returned
CheckUpdatesMessage(res, pu, call_id) ==
    LET updates == GetPendingUpdates(pu, call_id) IN
    IF Len(updates) > 0 THEN updates[Len(updates)]
    ELSE LET rid == GetReservationByCallId(res, call_id) IN
         IF rid # NoneVal THEN StatusFallback(StatusValue(res[rid].status))
         ELSE "I'm still working on your reservation. Let me continue checking."

\* the coordinator calls of an outbound status function: the optional
\* set_outbound_call_id (start_restaurant_call) and update_reservation_status
StatusFunctionReservations(res, rid, call_id, status, details, attach, now) ==
    UpdateReservations(IF attach THEN SetOutboundCallId(res, rid, call_id) ELSE res,
                       rid, status, details, call_id, now)

StatusFunctionPending(res, pu, rid, call_id, status, details, attach) ==
    UpdatePending(IF attach THEN SetOutboundCallId(res, rid, call_id) ELSE res,
                  pu, rid, status, details, call_id)

\* one outbound status function as a step: fn is its name, reply the string it
\* returns, noted the table it leaves (after any field it sets itself)
StatusFunctionStep(fn, rid, call_id, status, details, attach, noted, reply) ==
    /\ rid \in DOMAIN reservations => AppCalls(reservations) < MaxCalls
    /\ reservations' = noted
    /\ pending_updates' =
           StatusFunctionPending(reservations, pending_updates, rid, call_id,
                                 status, details, attach)
    /\ last' = Call(fn, rid, reply)
    /\ pre' = Snapshot
    /\ UNCHANGED <<clock, threads>>

\* make_reservation_call as a step, for create_new_reservation and the
\* legacy function of the same name
MakeReservationCallStep(fn, caller_call_id) ==
    \E name \in CustomerNames, found \in BOOLEAN, outcome \in InitiationOutcomes :
        IF ~found
        THEN /\ last' = Call(fn, NoneVal,
                     "I couldn't find Test Restaurant. Could you provide more details about its location?")
             /\ pre' = Snapshot
             /\ UNCHANGED <<reservations, pending_updates, clock, threads>>
        ELSE /\ AppCalls(reservations) < MaxCalls
             /\ reservations' =
                    MakeCallReservations(reservations, name, caller_call_id, outcome,
                                         "out1", clock)
             /\ pending_updates' =
                    MakeCallPending(reservations, pending_updates, name, caller_call_id,
                                    outcome, "out1", clock)
             /\ last' = Call(fn, Uuid4(reservations), MakeCallMessage(name, outcome))
             /\ pre' = Snapshot
             /\ UNCHANGED <<clock, threads>>

\* create_new_reservation(..., call_id)
CreateNewReservation ==
    \E call_id \in InboundCallInputs :
        MakeReservationCallStep("create_new_reservation", call_id)

\* handle_legacy_functions: make_reservation_call without a caller_call_id
LegacyMakeReservationCall == MakeReservationCallStep("make_reservation_call", NoneVal)

\* check_reservation_status_updates(call_id), for one call_id
CheckUpdatesStep(call_id) ==
    /\ pending_updates' = ClearPendingUpdates(pending_updates, call_id)
    /\ last' = Call("check_reservation_status_updates", call_id,
                    CheckUpdatesMessage(reservations, pending_updates, call_id))
    /\ pre' = Snapshot
    /\ UNCHANGED <<reservations, clock, threads>>

\* check_reservation_status_updates(call_id)
CheckReservationStatusUpdates ==
    \E call_id \in InboundCallInputs \cup OutboundCallInputs :
        CheckUpdatesStep(call_id)

\* start_restaurant_call(reservation_id, call_id)
StartRestaurantCall ==
    \E rid \in RidInputs(reservations), call_id \in AttachCallInputs :
        StatusFunctionStep("start_restaurant_call", rid, call_id, "CALLING_RESTAURANT",
            "Outbound call initiated to restaurant", TRUE,
            StatusFunctionReservations(reservations, rid, call_id, "CALLING_RESTAURANT",
                "Outbound call initiated to restaurant", TRUE, clock),
            "Call status updated. Beginning restaurant outreach.")

\* restaurant_answered(reservation_id, call_id)
RestaurantAnswered ==
    \E rid \in RidInputs(reservations), call_id \in OutboundCallInputs :
        StatusFunctionStep("restaurant_answered", rid, call_id,
            "SPEAKING_WITH_RESTAURANT", "Restaurant representative answered the phone",
            FALSE,
            StatusFunctionReservations(reservations, rid, call_id,
                "SPEAKING_WITH_RESTAURANT",
                "Restaurant representative answered the phone", FALSE, clock),
            "Status updated - now speaking with restaurant.")

\* restaurant_checking_availability(reservation_id, call_id, details)
RestaurantCheckingAvailability ==
    \E rid \in RidInputs(reservations), call_id \in OutboundCallInputs, details \in {""} \cup DetailInputs :
        LET d == IF details # "" THEN details
                 ELSE "Restaurant is checking availability in their system" IN
        StatusFunctionStep("restaurant_checking_availability", rid, call_id,
            "CHECKING_AVAILABILITY", d, FALSE,
            StatusFunctionReservations(reservations, rid, call_id,
                "CHECKING_AVAILABILITY", d, FALSE, clock),
            "Status updated - restaurant is checking availability.")

\* reservation_confirmed_by_restaurant(reservation_id, call_id, confirmation_details)
ReservationConfirmedByRestaurant ==
    \E rid \in RidInputs(reservations), call_id \in OutboundCallInputs,
       confirmation_details \in {""} \cup DetailInputs :
        LET d == IF confirmation_details # "" THEN confirmation_details
                 ELSE "Restaurant confirmed the reservation"
            upd == StatusFunctionReservations(reservations, rid, call_id, "CONFIRMED",
                                              d, FALSE, clock) IN
        StatusFunctionStep("reservation_confirmed_by_restaurant", rid, call_id,
            "CONFIRMED", d, FALSE,
            IF rid \in DOMAIN reservations
            THEN [upd EXCEPT ![rid].confirmation_details = confirmation_details]
            ELSE upd,
            "Excellent! Reservation confirmed. Status updated.")

\* reservation_declined_by_restaurant(reservation_id, call_id, reason)
ReservationDeclinedByRestaurant ==
    \E rid \in RidInputs(reservations), call_id \in OutboundCallInputs, reason \in {""} \cup DetailInputs :
        LET d == IF reason # "" THEN reason
                 ELSE "Restaurant cannot accommodate the requested time"
            upd == StatusFunctionReservations(reservations, rid, call_id, "DECLINED",
                                              d, FALSE, clock) IN
        StatusFunctionStep("reservation_declined_by_restaurant", rid, call_id,
            "DECLINED", d, FALSE,
            IF rid \in DOMAIN reservations
            THEN [upd EXCEPT ![rid].failure_reason = reason]
            ELSE upd,
            "Status updated - reservation declined by restaurant.")

\* restaurant_line_busy(reservation_id, call_id)
RestaurantLineBusy ==
    \E rid \in RidInputs(reservations), call_id \in OutboundCallInputs :
        StatusFunctionStep("restaurant_line_busy", rid, call_id, "RESTAURANT_BUSY",
            "Restaurant phone line is busy, will retry", FALSE,
            StatusFunctionReservations(reservations, rid, call_id, "RESTAURANT_BUSY",
                "Restaurant phone line is busy, will retry", FALSE, clock),
            "Restaurant line is busy. Status updated.")

\* restaurant_no_answer(reservation_id, call_id)
RestaurantNoAnswer ==
    \E rid \in RidInputs(reservations), call_id \in OutboundCallInputs :
        StatusFunctionStep("restaurant_no_answer", rid, call_id, "NO_ANSWER",
            "Restaurant is not answering the phone", FALSE,
            StatusFunctionReservations(reservations, rid, call_id, "NO_ANSWER",
                "Restaurant is not answering the phone", FALSE, clock),
            "Restaurant not answering. Status updated.")

\* mutant: the metadata type is not looked at
WebhookHandles_AnyType(res, event, type, rid) ==
    /\ event = "call_ended"
    /\ Truthy(rid)
    /\ rid \in DOMAIN res

\* retell_call_webhook: the conditions under which the event is acted on
WebhookHandles(res, event, type, rid) ==
    /\ event = "call_ended"
    /\ type = "restaurant_reservation"
    /\ Truthy(rid)
    /\ rid \in DOMAIN res

\* a completed retell_call_webhook request, with the event it carried
WebhookCall(event, type, rid, ret) ==
    [op |-> "retell_call_webhook", key |-> rid, ret |-> ret,
     event |-> event, type |-> type]

\* retell_call_webhook: POST /retell-webhook
RetellCallWebhook ==
    \E event \in {"call_ended", "call_started"},
       type \in {"restaurant_reservation", "other"},
       rid \in RidInputs(reservations) \cup {NoneVal} :
        /\ IF WebhookHandles(reservations, event, type, rid)
           THEN \E transcript \in TranscriptInputs, duration \in DurationInputs :
                /\ AppCalls(reservations) < MaxCalls
                /\ reservations' =
                       WebhookReservations(reservations, rid, transcript, duration, clock)
                /\ pending_updates' =
                       WebhookPending(reservations, pending_updates, rid, transcript)
           ELSE UNCHANGED <<reservations, pending_updates>>
        /\ last' = WebhookCall(event, type, rid, "ok")
        /\ pre' = Snapshot
        /\ UNCHANGED <<clock, threads>>

AppNext ==
    \/ CreateNewReservation
    \/ LegacyMakeReservationCall
    \/ CheckReservationStatusUpdates
    \/ StartRestaurantCall
    \/ RestaurantAnswered
    \/ RestaurantCheckingAvailability
    \/ ReservationConfirmedByRestaurant
    \/ ReservationDeclinedByRestaurant
    \/ RestaurantLineBusy
    \/ RestaurantNoAnswer
    \/ RetellCallWebhook

AppSpec == Init /\ [][AppNext]_vars

\* the agent functions when the customer's call keeps polling: the inbound
\* agent calls check_reservation_status_updates again and again while its
\* call lasts, so a poll of "in1" that would change something is not put off
\* for ever
PollingSpec == Init /\ [][AppNext]_vars /\ WF_vars(CheckUpdatesStep("in1"))

-----------------------------------------------------------------------------
(* Threaded specification.  app.run serves each request on a thread of its
   own and the coordinator takes no lock, so the statements of concurrent
   update_reservation_status calls interleave.  A step is one access to the
   shared tables (a dict lookup, an attribute store, a list.append: each is
   atomic in the interpreter); what a thread computes on its locals in
   between goes with the step that follows. *)

ConcRid == "r1"
ConcRidInputs == {ConcRid, UnknownRid}
ConcStatusInputs == {"CONFIRMED", "DECLINED"}
ConcCallIds == {"out1", "in1"}

\* updates is the list a get_pending_updates invocation holds and alias says
\* whether it is still the list object stored in pending_updates under its
\* call_id (an append to that list is then an append to updates)
Idle ==
    [pc |-> "idle", rid |-> NoneVal, status |-> NoneVal, details |-> NoneVal,
     call_id |-> NoneVal, update_source |-> NoneVal, target_call_id |-> NoneVal,
     updates |-> <<>>, alias |-> FALSE, ret |-> NoneVal, now |-> NoneVal]

\* the list stored under key k is replaced or removed: the invocations that
\* hold it keep the object, which is no longer the one in the table
Detached(ths, k) ==
    [u \in DOMAIN ths |->
        IF ths[u].alias /\ ths[u].call_id = k
        THEN [ths[u] EXCEPT !.alias = FALSE] ELSE ths[u]]

\* msg is appended to the list stored under key k: the invocations that hold
\* that list object see it grow
Aliased(ths, k, msg) ==
    [u \in DOMAIN ths |->
        IF ths[u].alias /\ ths[u].call_id = k
        THEN [ths[u] EXCEPT !.updates = Append(@, msg)] ELSE ths[u]]

\* the table the handlers start from: one reservation, made by the inbound
\* call "in1", whose restaurant call "out1" is attached
ConcReservations ==
    SetOutboundCallId(CreateReservation(<<>>, "Jane Doe", "in1", 0), ConcRid, "out1")

ConcInit ==
    /\ reservations = ConcReservations
    /\ pending_updates = <<>>
    /\ clock = 0
    /\ last = NoCall
    /\ pre = [reservations |-> <<>>, pending_updates |-> <<>>]
    /\ threads = [t \in 1..NThreads |-> Idle]

At(t, pc) == threads[t].pc = pc

\* a request arrives: update_reservation_status(rid, status, details, call_id)
ConcBegin(t) ==
    /\ At(t, "idle")
    /\ \E rid \in ConcRidInputs, status \in ConcStatusInputs,
          details \in DetailInputs, call_id \in ConcCallIds :
           threads' = [threads EXCEPT ![t] =
               [@ EXCEPT !.pc = "lookup", !.rid = rid, !.status = status,
                         !.details = details, !.call_id = call_id]]
    /\ UNCHANGED <<reservations, pending_updates, clock, last, pre>>

\* if reservation_id not in self.reservations: return False
ConcLookup(t) ==
    /\ At(t, "lookup")
    /\ threads' = [threads EXCEPT ![t] =
           IF threads[t].rid \in DOMAIN reservations
           THEN [@ EXCEPT !.pc = "set_status"]
           ELSE [@ EXCEPT !.pc = "done", !.ret = FALSE]]
    /\ UNCHANGED <<reservations, pending_updates, clock, last, pre>>

\* reservation.status = status; reservation.updated_at = datetime.now()
\* (no handler reads updated_at, so the two stores are taken as one step)
ConcSetStatus(t) ==
    /\ At(t, "set_status")
    /\ reservations' = [reservations EXCEPT ![threads[t].rid].status = threads[t].status,
                                            ![threads[t].rid].updated_at = clock]
    /\ threads' = [threads EXCEPT ![t].pc = "source"]
    /\ UNCHANGED <<pending_updates, clock, last, pre>>

\* "Track which call made this update": reads the record's two call ids
ConcSource(t) ==
    /\ At(t, "source")
    /\ threads' = [threads EXCEPT ![t] =
           [@ EXCEPT !.pc = "append",
                     !.update_source =
                         UpdateSource(reservations[threads[t].rid], threads[t].call_id)]]
    /\ UNCHANGED <<reservations, pending_updates, clock, last, pre>>

\* self._add_status_history(...): one list.append
ConcAddStatusHistory(t) ==
    /\ At(t, "append")
    /\ reservations' = AddStatusHistory(reservations, threads[t].rid, threads[t].status,
                                        threads[t].details, threads[t].update_source, clock)
    /\ threads' = [threads EXCEPT ![t].pc = "target"]
    /\ UNCHANGED <<pending_updates, clock, last, pre>>

\* _queue_update_for_other_agent: target_call_id; "if target_call_id:"
ConcTarget(t) ==
    /\ At(t, "target")
    /\ LET target == TargetCallId(reservations[threads[t].rid], threads[t].call_id)
       IN threads' = [threads EXCEPT ![t] =
              IF Truthy(target)
              THEN [@ EXCEPT !.pc = "check", !.target_call_id = target]
              ELSE [@ EXCEPT !.pc = "done", !.target_call_id = target, !.ret = TRUE]]
    /\ UNCHANGED <<reservations, pending_updates, clock, last, pre>>

\* if target_call_id not in self.pending_updates:
ConcCheckMailbox(t) ==
    /\ At(t, "check")
    /\ threads' = [threads EXCEPT ![t].pc =
           IF threads[t].target_call_id \in DOMAIN pending_updates
           THEN "message" ELSE "create"]
    /\ UNCHANGED <<reservations, pending_updates, clock, last, pre>>

\* self.pending_updates[target_call_id] = []
ConcCreateMailbox(t) ==
    /\ At(t, "create")
    /\ pending_updates' = DictSet(pending_updates, threads[t].target_call_id, <<>>)
    /\ threads' = [Detached(threads, threads[t].target_call_id) EXCEPT ![t].pc = "message"]
    /\ UNCHANGED <<reservations, clock, last, pre>>

\* self.pending_updates[target_call_id].append(update_message); return True.
\* The subscript raises KeyError when the key is no longer in the table.
ConcAppendMessage(t) ==
    /\ At(t, "message")
    /\ LET r == reservations[threads[t].rid]
           target == threads[t].target_call_id
           msg == FormatStatusMessage(threads[t].status, threads[t].details,
                                      threads[t].call_id = r.outbound_call_id)
       IN IF target \in DOMAIN pending_updates
          THEN /\ pending_updates' = EnqueueMessage(pending_updates, target, msg)
               /\ threads' = [Aliased(threads, target, msg) EXCEPT ![t] =
                                  [@ EXCEPT !.pc = "done", !.ret = TRUE]]
          ELSE /\ pending_updates' = pending_updates
               /\ threads' = [threads EXCEPT ![t] =
                                  [@ EXCEPT !.pc = "raised", !.ret = "KeyError"]]
    /\ UNCHANGED <<reservations, clock, last, pre>>

ConcNext ==
    \E t \in 1..NThreads :
        \/ ConcBegin(t)
        \/ ConcLookup(t)
        \/ ConcSetStatus(t)
        \/ ConcSource(t)
        \/ ConcAddStatusHistory(t)
        \/ ConcTarget(t)
        \/ ConcCheckMailbox(t)
        \/ ConcCreateMailbox(t)
        \/ ConcAppendMessage(t)

ConcSpec == ConcInit /\ [][ConcNext]_vars

\* every handler has returned
ConcAllDone == \A t \in 1..NThreads : At(t, "done")

\* the handlers whose call was accepted (returned True)
ConcAccepted == {t \in 1..NThreads : threads[t].ret = TRUE}

-----------------------------------------------------------------------------
(* Threaded specification of the mailboxes: each handler runs either
   update_reservation_status or get_pending_updates, statement by statement,
   starting from a table in which the inbound call has a message pending. *)

DrainCallIds == {"in1"}

\* the tables after the restaurant call "out1" reported CONFIRMED
MailboxReservations ==
    UpdateReservations(ConcReservations, ConcRid, "CONFIRMED",
                       "table by the window", "out1", 0)

MailboxPending ==
    UpdatePending(ConcReservations, <<>>, ConcRid, "CONFIRMED",
                  "table by the window", "out1")

MailboxInit ==
    /\ reservations = MailboxReservations
    /\ pending_updates = MailboxPending
    /\ clock = 0
    /\ last = NoCall
    /\ pre = [reservations |-> <<>>, pending_updates |-> <<>>]
    /\ threads = [t \in 1..NThreads |-> Idle]

\* a request arrives: get_pending_updates(call_id)
DrainBegin(t) ==
    /\ At(t, "idle")
    /\ \E call_id \in DrainCallIds :
           threads' = [threads EXCEPT ![t] =
               [@ EXCEPT !.pc = "drain_get", !.call_id = call_id]]
    /\ UNCHANGED <<reservations, pending_updates, clock, last, pre>>

\* updates = self.pending_updates.get(call_id, [])
DrainGet(t) ==
    /\ At(t, "drain_get")
    /\ threads' = [threads EXCEPT ![t] =
           [@ EXCEPT !.pc = "drain_check",
                     !.updates = GetPendingUpdates(pending_updates, threads[t].call_id),
                     !.alias = threads[t].call_id \in DOMAIN pending_updates]]
    /\ UNCHANGED <<reservations, pending_updates, clock, last, pre>>

\* if call_id in self.pending_updates: ... else fall through to return updates
DrainCheck(t) ==
    /\ At(t, "drain_check")
    /\ threads' = [threads EXCEPT ![t] =
           IF threads[t].call_id \in DOMAIN pending_updates
           THEN [@ EXCEPT !.pc = "drain_del"]
           ELSE [@ EXCEPT !.pc = "done", !.ret = threads[t].updates]]
    /\ UNCHANGED <<reservations, pending_updates, clock, last, pre>>

\* del self.pending_updates[call_id]; return updates.  The del raises KeyError
\* when the key is no longer in the table.
DrainDel(t) ==
    /\ At(t, "drain_del")
    /\ IF threads[t].call_id \in DOMAIN pending_updates
       THEN /\ pending_updates' = ClearPendingUpdates(pending_updates, threads[t].call_id)
            /\ threads' = [Detached(threads, threads[t].call_id) EXCEPT ![t] =
                              [@ EXCEPT !.pc = "done", !.alias = FALSE,
                                        !.ret = threads[t].updates]]
       ELSE /\ pending_updates' = pending_updates
            /\ threads' = [threads EXCEPT ![t] =
                              [@ EXCEPT !.pc = "raised", !.ret = "KeyError"]]
    /\ UNCHANGED <<reservations, clock, last, pre>>

MailboxNext ==
    \E t \in 1..NThreads :
        \/ ConcBegin(t)
        \/ ConcLookup(t)
        \/ ConcSetStatus(t)
        \/ ConcSource(t)
        \/ ConcAddStatusHistory(t)
        \/ ConcTarget(t)
        \/ ConcCheckMailbox(t)
        \/ ConcCreateMailbox(t)
        \/ ConcAppendMessage(t)
        \/ DrainBegin(t)
        \/ DrainGet(t)
        \/ DrainCheck(t)
        \/ DrainDel(t)

MailboxSpec == MailboxInit /\ [][MailboxNext]_vars

\* every handler has returned or raised
Finished(t) == At(t, "done") \/ At(t, "raised")

AllFinished == \A t \in 1..NThreads : Finished(t)

\* the handlers that ran get_pending_updates(s) / an update notifying s
Drainers(s) == {t \in 1..NThreads : threads[t].rid = NoneVal /\ threads[t].call_id = s}

Notifiers(s) == {t \in 1..NThreads : threads[t].target_call_id = s}

RECURSIVE SumReturned(_)
SumReturned(ts) ==
    IF ts = {} THEN 0
    ELSE LET t == CHOOSE x \in ts : TRUE
         IN (IF At(t, "done") THEN Len(threads[t].ret) ELSE 0) + SumReturned(ts \ {t})

-----------------------------------------------------------------------------
(* Observations used by the properties.  The state holds the last call made
   (last) and the tables as that call found them (pre), so that what a call
   did is a predicate of one state. *)

IsPrefix(a, b) == Len(a) <= Len(b) /\ SubSeq(b, 1, Len(a)) = a

\* the messages pending for a session (none when it has no mailbox)
Box(pu, s) == DictGet(pu, s, <<>>)

LastEntry(r) == r.status_history[Len(r.status_history)]

\* the last call was an accepted update_reservation_status on rid
AcceptedUpdate(rid) ==
    /\ last.op = "update_reservation_status"
    /\ last.key = rid
    /\ last.ret = TRUE

\* the last call was a get_pending_updates of session s
DrainOf(s) == last.op = "get_pending_updates" /\ last.key = s

\* the last call appended an entry to the history of rid
Grew(rid) ==
    /\ rid \in DOMAIN pre.reservations
    /\ rid \in DOMAIN reservations
    /\ Len(reservations[rid].status_history) =
           Len(pre.reservations[rid].status_history) + 1

-----------------------------------------------------------------------------
(* Properties of the coordinator, one call at a time (Spec) *)

\* C1: after any sequence of non-overlapping create_reservation and
\* update_reservation_status calls, every reservation's status is the status
\* recorded in the last entry of its history.
C1_StatusIsLastHistoryStatus ==
    \A rid \in DOMAIN reservations :
        /\ Len(reservations[rid].status_history) >= 1
        /\ StatusValue(reservations[rid].status) = LastEntry(reservations[rid]).status

C1_Witness ==
    \E rid \in DOMAIN reservations :
        /\ Len(reservations[rid].status_history) = 3
        /\ reservations[rid].status = "ERROR"
        /\ reservations[rid].status_history[2].status = "confirmed"

\* C4: the history is append-only.  Every call leaves the history it found as
\* a prefix of the history it leaves; an accepted update appends exactly one
\* entry, at the end, and no other call makes a history longer.
C4_HistoryAppendOnly ==
    \A rid \in DOMAIN pre.reservations :
        /\ rid \in DOMAIN reservations
        /\ IsPrefix(pre.reservations[rid].status_history,
                    reservations[rid].status_history)
        /\ Len(reservations[rid].status_history) =
               Len(pre.reservations[rid].status_history)
                   + (IF AcceptedUpdate(rid) THEN 1 ELSE 0)

C4_Witness ==
    /\ last.op = "update_reservation_status"
    /\ last.ret = TRUE
    /\ Len(pre.reservations[last.key].status_history) = 2
    /\ Len(reservations[last.key].status_history) = 3
    /\ reservations[last.key].status_history[2].status = "confirmed"
    /\ reservations[last.key].status_history[3].status = "error"

\* C5: right after create_reservation returns an id, the record under that id
\* has status INITIATED and a history of exactly one entry (status initiated,
\* source system); the id was not in the table before, and every record that
\* was in the table is unchanged.
C5_CreateIsFreshAndInitiated ==
    last.op = "create_reservation" =>
        LET rid == last.ret IN
        /\ rid \notin DOMAIN pre.reservations
        /\ DOMAIN reservations = DOMAIN pre.reservations \cup {rid}
        /\ reservations[rid].reservation_id = rid
        /\ reservations[rid].status = "INITIATED"
        /\ Len(reservations[rid].status_history) = 1
        /\ reservations[rid].status_history[1].status = "initiated"
        /\ reservations[rid].status_history[1].source = "system"
        /\ \A other \in DOMAIN pre.reservations :
               reservations[other] = pre.reservations[other]

C5_Witness ==
    /\ last.op = "create_reservation"
    /\ Cardinality(DOMAIN reservations) = 2
    /\ \E other \in DOMAIN pre.reservations :
           Len(reservations[other].status_history) = 2
    /\ Len(reservations[last.ret].status_history) = 1

\* C6, as claimed: an accepted update whose call_id is the reservation's
\* outbound call id (the entry it appends has source outbound_agent) adds
\* exactly one message to the mailbox of the reservation's inbound call and
\* none to the mailbox of its outbound call.
C6_AsClaimed ==
    \A rid \in DOMAIN reservations :
        (AcceptedUpdate(rid) /\ LastEntry(reservations[rid]).source = "outbound_agent") =>
            LET r == reservations[rid] IN
            /\ Len(Box(pending_updates, r.inbound_call_id)) =
                   Len(Box(pre.pending_updates, r.inbound_call_id)) + 1
            /\ Box(pending_updates, r.outbound_call_id) =
                   Box(pre.pending_updates, r.outbound_call_id)

\* C6, amended: the same, for a reservation whose inbound call id is set
\* (neither None nor empty) and differs from its outbound call id; the new
\* message is at the end of the inbound mailbox and no other mailbox changes.
C6_OutboundUpdateNotifiesInbound ==
    \A rid \in DOMAIN reservations :
        (/\ AcceptedUpdate(rid)
         /\ LastEntry(reservations[rid]).source = "outbound_agent"
         /\ Truthy(reservations[rid].inbound_call_id)
         /\ reservations[rid].inbound_call_id # reservations[rid].outbound_call_id) =>
            LET r == reservations[rid] IN
            /\ Len(Box(pending_updates, r.inbound_call_id)) =
                   Len(Box(pre.pending_updates, r.inbound_call_id)) + 1
            /\ IsPrefix(Box(pre.pending_updates, r.inbound_call_id),
                        Box(pending_updates, r.inbound_call_id))
            /\ \A s \in (DOMAIN pending_updates \cup DOMAIN pre.pending_updates)
                        \ {r.inbound_call_id} :
                   Box(pending_updates, s) = Box(pre.pending_updates, s)

C6_Witness ==
    /\ last.op = "update_reservation_status"
    /\ last.ret = TRUE
    /\ LET r == reservations[last.key] IN
       /\ LastEntry(r).source = "outbound_agent"
       /\ r.inbound_call_id = "in1"
       /\ r.outbound_call_id = "out1"
       /\ Len(Box(pre.pending_updates, "in1")) = 1
       /\ Len(Box(pending_updates, "in1")) = 2
       /\ "out1" \notin DOMAIN pending_updates

\* C7, as claimed: an accepted update attributed to source system (call_id
\* absent, empty or matching neither call of the record), or whose counterpart
\* call id is unset, leaves every mailbox as it was.
C7_AsClaimed ==
    \A rid \in DOMAIN reservations :
        (/\ AcceptedUpdate(rid)
         /\ \/ LastEntry(reservations[rid]).source = "system"
            \/ /\ LastEntry(reservations[rid]).source = "outbound_agent"
               /\ ~Truthy(reservations[rid].inbound_call_id)
            \/ /\ LastEntry(reservations[rid]).source = "inbound_agent"
               /\ ~Truthy(reservations[rid].outbound_call_id)) =>
            pending_updates = pre.pending_updates

\* C9: get_pending_updates is exhaustive and exactly-once.  A drain returns
\* everything that was pending for the session and leaves the session
\* without a mailbox, so that a drain following it with no enqueue in between
\* finds nothing and returns the empty list; no other mailbox is touched.
C9_DrainExhaustiveOnce ==
    \A s \in CallIds :
        DrainOf(s) =>
            /\ last.ret = Box(pre.pending_updates, s)
            /\ s \notin DOMAIN pending_updates
            /\ Box(pending_updates, s) = <<>>
            /\ s \notin DOMAIN pre.pending_updates => last.ret = <<>>
            /\ DOMAIN pending_updates = DOMAIN pre.pending_updates \ {s}
            /\ \A t \in DOMAIN pending_updates :
                   pending_updates[t] = pre.pending_updates[t]

C9_Witness ==
    /\ last.op = "get_pending_updates"
    /\ Len(last.ret) = 2
    /\ last.key \in DOMAIN pre.pending_updates
    /\ last.key \notin DOMAIN pending_updates

\* C10: a session's messages are returned in enqueue order.  Any call other
\* than a drain of the session leaves its mailbox as it was or with one
\* message more at the end (and only an update adds one), and a drain returns
\* the whole list in that order.
C10_DrainInEnqueueOrder ==
    \A s \in DOMAIN pending_updates \cup DOMAIN pre.pending_updates :
        IF DrainOf(s)
        THEN last.ret = Box(pre.pending_updates, s)
        ELSE /\ IsPrefix(Box(pre.pending_updates, s), Box(pending_updates, s))
             /\ Len(Box(pending_updates, s)) <= Len(Box(pre.pending_updates, s)) + 1
             /\ Len(Box(pending_updates, s)) > Len(Box(pre.pending_updates, s)) =>
                    last.op = "update_reservation_status"

C10_Witness ==
    /\ last.op = "get_pending_updates"
    /\ last.key = "in1"
    /\ last.ret = <<"Great news! Your reservation is confirmed. table by the window",
                    "There was an issue with the booking. table by the window">>

-----------------------------------------------------------------------------
(* Properties of the agent functions and the webhook (AppSpec) *)

\* C8, as claimed: the end-of-call event applies its classified status with
\* source outbound.  When the webhook advances a reservation that has an
\* inbound call, the entry it appends has source outbound_agent and the
\* inbound call's mailbox has exactly one message more.
C8_AsClaimed ==
    \A rid \in DOMAIN reservations :
        (/\ last.op = "retell_call_webhook"
         /\ last.key = rid
         /\ Grew(rid)
         /\ Truthy(reservations[rid].inbound_call_id)) =>
            /\ LastEntry(reservations[rid]).source = "outbound_agent"
            /\ Len(Box(pending_updates, reservations[rid].inbound_call_id)) =
                   Len(Box(pre.pending_updates, reservations[rid].inbound_call_id)) + 1

-----------------------------------------------------------------------------
(* Properties of concurrent update_reservation_status calls (ConcSpec) *)

\* C2, as claimed: when update_reservation_status calls on the same
\* reservation run concurrently, once all have returned the record's status
\* is the status of its last history entry (no torn status/history pair).
C2_AsClaimed ==
    ConcAllDone =>
        StatusValue(reservations[ConcRid].status) =
            LastEntry(reservations[ConcRid]).status

\* C3: when n update_reservation_status calls on the same existing
\* reservation run concurrently, no update is lost: after all have returned
\* the history is longer by exactly n, and each call's entry is in it.
C3_NoLostUpdate ==
    ConcAllDone =>
        LET h == reservations[ConcRid].status_history
            h0 == ConcReservations[ConcRid].status_history
        IN /\ Len(h) = Len(h0) + Cardinality(ConcAccepted)
           /\ IsPrefix(h0, h)
           /\ \A st \in ConcStatusInputs :
                  Cardinality({i \in Len(h0) + 1 .. Len(h) : h[i].status = StatusValue(st)})
                      = Cardinality({t \in ConcAccepted : threads[t].status = st})

C3_Witness ==
    /\ ConcAllDone
    /\ Cardinality(ConcAccepted) = NThreads
    /\ \E t, u \in ConcAccepted : threads[t].status # threads[u].status
    /\ Len(reservations[ConcRid].status_history) = NThreads + 1

-----------------------------------------------------------------------------
(* Properties of concurrent mailbox accesses (MailboxSpec) *)

\* C11, as claimed: concurrent get_pending_updates calls on one session are
\* linearized.  When every handler drained session "in1" and all have
\* finished, none raised, one of them returned the pending messages and the
\* others returned the empty list.
C11_AsClaimed ==
    (AllFinished /\ Drainers("in1") = 1..NThreads) =>
        /\ \A t \in 1..NThreads : At(t, "done")
        /\ \E t \in 1..NThreads :
               /\ threads[t].ret = MailboxPending["in1"]
               /\ \A u \in (1..NThreads) \ {t} : threads[u].ret = <<>>

\* C12, as claimed: an enqueue never fails and never loses a message when it
\* interleaves with a drain of the same session.  Once an update that
\* notifies "in1" and a drain of "in1" have both finished, the update did not
\* raise, and the messages the drain returned plus those still pending for
\* "in1" are the message pending at the start plus the one enqueued.
C12_AsClaimed ==
    (/\ AllFinished
     /\ Cardinality(Drainers("in1")) = 1
     /\ Cardinality(Notifiers("in1")) = 1) =>
        /\ \A t \in Notifiers("in1") : At(t, "done")
        /\ SumReturned(Drainers("in1")) + Len(Box(pending_updates, "in1"))
               = Len(MailboxPending["in1"]) + Cardinality(Notifiers("in1"))

-----------------------------------------------------------------------------
(* Properties of the poll (AppSpec) *)

\* C13, as claimed: every message a poll (check_reservation_status_updates)
\* removes from the session's mailbox is delivered to the session: each
\* message that was pending before the poll and is gone after it is part of
\* what the poll returned.
C13_AsClaimed ==
    last.op = "check_reservation_status_updates" =>
        LET before == Box(pre.pending_updates, last.key)
            after == Box(pending_updates, last.key)
        IN \A i \in 1..Len(before) :
               (\A j \in 1..Len(after) : after[j] # before[i]) =>
                   Contains(last.ret, before[i])

-----------------------------------------------------------------------------
(* Specification of the end-of-call classification: one reservation whose
   restaurant call was started, and the call_ended event of that call with a
   transcript put together from an opening, a reply and a closing. *)

Openings == {"", "Hello, thanks for calling.", "Sorry,"}

Replies ==
    {"", " we are fully booked tonight.", " The table is Confirmed.",
     " We have NO AVAILABILITY.", " You are all set.", " We Cannot do that.",
     " We can't.", " We are closed.", " See you at 7!", " A reservation for two.",
     " It is booked."}

Closings ==
    {"", " Under Jane Doe.", " under JANE DOE", " We cannot.", " See you soon!"}

ClassifierTranscripts ==
    {o \o r \o c : o \in Openings, r \in Replies, c \in Closings} \cup TranscriptInputs

ClassifierCustomerNames == {"Jane Doe", "Bob"}

ClassifierDurations == {0, 95}

ClassifyInit ==
    /\ \E name \in ClassifierCustomerNames :
        /\ reservations = MakeCallReservations(<<>>, name, "in1", "created", "out1", 0)
        /\ pending_updates = MakeCallPending(<<>>, <<>>, name, "in1", "created", "out1", 0)
    /\ clock = 0
    /\ last = NoCall
    /\ pre = [reservations |-> <<>>, pending_updates |-> <<>>]
    /\ threads = <<>>

\* POST /retell-webhook, event call_ended of the reservation's restaurant call
\* (the event of a call is delivered once)
CallEnded ==
    \E rid \in DOMAIN reservations, transcript \in ClassifierTranscripts,
       duration \in ClassifierDurations :
        /\ last.op # "retell_call_webhook"
        /\ reservations' =
               WebhookReservations(reservations, rid, transcript, duration, clock)
        /\ pending_updates' =
               WebhookPending(reservations, pending_updates, rid, transcript)
        /\ last' = Call("retell_call_webhook", rid, "ok")
        /\ pre' = Snapshot
        /\ UNCHANGED <<clock, threads>>

ClassifyNext == CallEnded

ClassifySpec == ClassifyInit /\ [][ClassifyNext]_vars

\* the end-of-call event has been handled for reservation rid
Classified(rid) == last.op = "retell_call_webhook" /\ last.key = rid /\ Grew(rid)

\* the lower-cased transcript holds a keyword of the list
HasKeyword(transcript, keywords) ==
    \E k \in keywords : Contains(Lower(transcript), k)

\* the sentence of confirmation_msg that names the customer
NameClause(customer_name) == " They have the reservation under " \o customer_name \o "."

-----------------------------------------------------------------------------
(* Properties of the classification (ClassifySpec) *)

\* C14: classifier precedence.  For every transcript that contains, case
\* apart, a confirmation keyword and a decline keyword, the end-of-call event
\* sets the reservation to CONFIRMED.
C14_ConfirmedWins ==
    \A rid \in DOMAIN reservations :
        (/\ Classified(rid)
         /\ HasKeyword(reservations[rid].transcript, confirmed_keywords)
         /\ HasKeyword(reservations[rid].transcript, failed_keywords)) =>
            /\ reservations[rid].status = "CONFIRMED"
            /\ LastEntry(reservations[rid]).status = "confirmed"

C14_Witness ==
    \E rid \in DOMAIN reservations :
        /\ Classified(rid)
        /\ reservations[rid].transcript = "Hello, thanks for calling. We are closed. See you soon!"
        /\ reservations[rid].status = "CONFIRMED"

\* C15, as claimed: the transcript "Sorry, we are fully booked tonight." is
\* classified DECLINED.
C15_AsClaimed ==
    \A rid \in DOMAIN reservations :
        (/\ Classified(rid)
         /\ reservations[rid].transcript = "Sorry, we are fully booked tonight.") =>
            reservations[rid].status = "DECLINED"

\* C16: a transcript with no confirmation keyword and no decline keyword (the
\* empty transcript included) is classified ERROR, and the status the event
\* leaves is decided by the transcript alone, whatever the customer name and
\* the call duration.
C16_NoKeywordIsError ==
    \A rid \in DOMAIN reservations :
        Classified(rid) =>
            /\ (/\ ~HasKeyword(reservations[rid].transcript, confirmed_keywords)
                /\ ~HasKeyword(reservations[rid].transcript, failed_keywords)) =>
                   /\ reservations[rid].status = "ERROR"
                   /\ LastEntry(reservations[rid]).status = "error"
                   /\ LastEntry(reservations[rid]).details = "Call ended but outcome unclear"
            /\ reservations[rid].status \in {"CONFIRMED", "DECLINED", "ERROR"}
            /\ reservations[rid].status = "CONFIRMED" <=>
                   HasKeyword(reservations[rid].transcript, confirmed_keywords)

C16_Witness ==
    \E rid \in DOMAIN reservations :
        /\ Classified(rid)
        /\ reservations[rid].transcript = "Hello, thanks for calling."
        /\ reservations[rid].status = "ERROR"
        /\ pre.reservations[rid].status = "CALLING_RESTAURANT"

\* C17: when the transcript is classified CONFIRMED, the explanation stored
\* for the customer (confirmation_details) names the customer if and only if
\* the customer name occurs in the transcript, case apart.
C17_NameMentionedIffInTranscript ==
    \A rid \in DOMAIN reservations :
        (Classified(rid) /\ reservations[rid].status = "CONFIRMED") =>
            (Contains(reservations[rid].confirmation_details,
                      NameClause(reservations[rid].customer_name))
             <=> Contains(Lower(reservations[rid].transcript),
                          Lower(reservations[rid].customer_name)))

C17_Witness ==
    \E rid \in DOMAIN reservations :
        /\ Classified(rid)
        /\ reservations[rid].customer_name = "Jane Doe"
        /\ reservations[rid].transcript = " You are all set. under JANE DOE"
        /\ reservations[rid].confirmation_details =
               "The restaurant confirmed your reservation. They have the reservation under Jane Doe. Call duration: 95 seconds."

-----------------------------------------------------------------------------
(* Properties of calls that name an unknown reservation or session (Spec) *)

\* C18: update_reservation_status and set_outbound_call_id on a reservation
\* id that is not in the table return False and leave the whole state as it
\* was: no record is created or modified and no mailbox gains a message.
C18_UnknownIdIsRefused ==
    (/\ last.op \in {"update_reservation_status", "set_outbound_call_id"}
     /\ last.key \notin DOMAIN pre.reservations) =>
        /\ last.ret = FALSE
        /\ reservations = pre.reservations
        /\ pending_updates = pre.pending_updates

C18_Witness ==
    /\ last.op = "update_reservation_status"
    /\ last.key = UnknownRid
    /\ last.ret = FALSE
    /\ "r1" \in DOMAIN reservations
    /\ Len(Box(pending_updates, "in1")) = 1

\* C19: get_pending_updates for a session without a mailbox returns the
\* empty list and check_reservation_status for an unknown reservation id
\* returns a not-found result; neither creates a mailbox or a record nor
\* changes an existing one.
C19_MissesChangeNothing ==
    /\ (/\ last.op = "get_pending_updates"
        /\ last.key \notin DOMAIN pre.pending_updates) =>
           /\ last.ret = <<>>
           /\ reservations = pre.reservations
           /\ pending_updates = pre.pending_updates
    /\ (/\ last.op = "check_reservation_status"
        /\ last.key \notin DOMAIN pre.reservations) =>
           /\ last.ret.found = FALSE
           /\ last.ret.message =
                  "I couldn't find that reservation. It may have expired or the ID is incorrect."
           /\ reservations = pre.reservations
           /\ pending_updates = pre.pending_updates

C19_Witness ==
    /\ last.op = "check_reservation_status"
    /\ last.key = UnknownRid
    /\ last.ret.found = FALSE
    /\ "r1" \in DOMAIN reservations
    /\ Len(Box(pending_updates, "in1")) = 1

-----------------------------------------------------------------------------
(* Properties of the outbound status functions (AppSpec) *)

\* C20, as claimed: an outbound status function called with a reservation id
\* that is not in the table reports the miss to its caller; its reply never
\* says that the status was updated.
C20_AsClaimed ==
    (/\ last.op \in {"start_restaurant_call", "restaurant_answered",
                     "restaurant_checking_availability",
                     "reservation_confirmed_by_restaurant",
                     "reservation_declined_by_restaurant",
                     "restaurant_line_busy", "restaurant_no_answer"}
     /\ last.key \notin DOMAIN pre.reservations) =>
        ~Contains(Lower(last.ret), "updated")

-----------------------------------------------------------------------------
(* Properties of the record's fields under the agent functions (AppSpec) *)

\* C21, as claimed: whenever a transition to CONFIRMED (resp. DECLINED) is
\* accepted, confirmation_details (resp. failure_reason) is set from the
\* transition's detail: after the operation it equals the details of the
\* history entry the transition appended.
C21_AsClaimed ==
    \A rid \in DOMAIN reservations :
        Grew(rid) =>
            /\ LastEntry(reservations[rid]).status = "confirmed" =>
                   reservations[rid].confirmation_details =
                       LastEntry(reservations[rid]).details
            /\ LastEntry(reservations[rid]).status = "declined" =>
                   reservations[rid].failure_reason =
                       LastEntry(reservations[rid]).details

-----------------------------------------------------------------------------
(* Properties of the history entry's source (Spec) *)

\* C22, as claimed: the source of the entry an accepted update appends is
\* outbound_agent when the call_id given equals the record's outbound call
\* id, inbound_agent when it equals the record's inbound call id, and system
\* in every other case (call_id absent, empty or unmatched); it is always one
\* of the three.
C22_AsClaimed ==
    \A rid \in DOMAIN reservations :
        AcceptedUpdate(rid) =>
            LET r == reservations[rid]
                c == last.call_id
                source == LastEntry(r).source
            IN /\ source \in {"outbound_agent", "inbound_agent", "system"}
               /\ (Truthy(c) /\ c = r.outbound_call_id) => source = "outbound_agent"
               /\ (Truthy(c) /\ c = r.inbound_call_id) => source = "inbound_agent"
               /\ ~(Truthy(c) /\ (c = r.outbound_call_id \/ c = r.inbound_call_id)) =>
                      source = "system"

\* C22, amended: the same, the outbound call id being compared first: the
\* source is inbound_agent when call_id equals the inbound call id and not
\* the outbound one.
C22_SourceOfEntry ==
    \A rid \in DOMAIN reservations :
        AcceptedUpdate(rid) =>
            LET r == reservations[rid]
                c == last.call_id
                source == LastEntry(r).source
            IN /\ source \in {"outbound_agent", "inbound_agent", "system"}
               /\ (Truthy(c) /\ c = r.outbound_call_id) => source = "outbound_agent"
               /\ (Truthy(c) /\ c = r.inbound_call_id /\ c # r.outbound_call_id) =>
                      source = "inbound_agent"
               /\ ~(Truthy(c) /\ (c = r.outbound_call_id \/ c = r.inbound_call_id)) =>
                      source = "system"

C22_Witness ==
    /\ last.op = "update_reservation_status"
    /\ last.ret = TRUE
    /\ last.call_id = "in1"
    /\ LET r == reservations[last.key] IN
       /\ r.inbound_call_id = "in1"
       /\ r.outbound_call_id = "out1"
       /\ Len(r.status_history) = 3
       /\ r.status_history[2].source = "outbound_agent"
       /\ r.status_history[3].source = "inbound_agent"

-----------------------------------------------------------------------------
(* Properties of the order of statuses under the agent functions (AppSpec) *)

\* the stage of a status along INITIATED -> CALLING_RESTAURANT ->
\* SPEAKING_WITH_RESTAURANT -> CHECKING_AVAILABILITY -> terminal
Stage(s) ==
    CASE s = "INITIATED" -> 0
      [] s = "CALLING_RESTAURANT" -> 1
      [] s = "SPEAKING_WITH_RESTAURANT" -> 2
      [] s = "CHECKING_AVAILABILITY" -> 3
      [] OTHER -> 4

TerminalStatuses == {"CONFIRMED", "DECLINED", "RESTAURANT_BUSY", "NO_ANSWER", "ERROR"}

\* C23, as claimed: transitions are validated against the state machine.  A
\* reservation enters in INITIATED, and no call of create_new_reservation, of
\* an outbound status function or of the end-of-call event moves the status
\* of a reservation back to an earlier stage.
C23_AsClaimed ==
    /\ \A rid \in DOMAIN reservations \ DOMAIN pre.reservations :
           reservations[rid].status_history[1].status = "initiated"
    /\ \A rid \in DOMAIN reservations \cap DOMAIN pre.reservations :
           Stage(reservations[rid].status) >= Stage(pre.reservations[rid].status)

\* C24, as claimed: once the status of a reservation is CONFIRMED, DECLINED,
\* RESTAURANT_BUSY, NO_ANSWER or ERROR, no function call and no end-of-call
\* event changes it to a different status.
C24_AsClaimed ==
    \A rid \in DOMAIN reservations \cap DOMAIN pre.reservations :
        pre.reservations[rid].status \in TerminalStatuses =>
            reservations[rid].status = pre.reservations[rid].status

\* C25, as claimed: create_new_reservation creates the record only after the
\* call-initiation request has succeeded, so after a create_new_reservation
\* whose initiation failed (an error answer or an exception) the table holds
\* no record that was not there before the call.
C25_AsClaimed ==
    ( /\ last.op = "create_new_reservation"
      /\ last.key # NoneVal
      /\ \A name \in CustomerNames : last.ret # MakeCallMessage(name, "created") )
        => DOMAIN reservations = DOMAIN pre.reservations

-----------------------------------------------------------------------------
(* Order of history entries and of mailbox messages (ConcSpec) *)

\* C26, as claimed: the history append and the mailbox enqueue of one
\* update_reservation_status call are atomic with respect to the other calls
\* on the same reservation: when concurrent calls from the outbound call have
\* all returned, the messages in the inbound call's mailbox are in the order
\* of the history entries those calls appended.
C26_AsClaimed ==
    ( /\ ConcAllDone
      /\ \A t \in 1..NThreads : threads[t].ret = TRUE /\ threads[t].call_id = "out1" )
        => LET h == reservations[ConcRid].status_history
               n == Len(ConcReservations[ConcRid].status_history)
               box == Box(pending_updates, "in1")
           IN /\ Len(box) = Len(h) - n
              /\ \A i \in 1..Len(box) :
                     \E st \in ConcStatusInputs :
                         /\ h[n + i].status = StatusValue(st)
                         /\ box[i] = FormatStatusMessage(st, h[n + i].details, TRUE)

-----------------------------------------------------------------------------
(* Properties of set_outbound_call_id (Spec) *)

\* C27: an accepted set_outbound_call_id leaves the record with the call id
\* it was given, whatever id was attached before (last write wins), making
\* the same call again changes nothing (idempotent), and the call changes
\* no field other than outbound_call_id, no other record and no mailbox.
C27_AttachOnlySetsOutboundId ==
    (last.op = "set_outbound_call_id" /\ last.ret = TRUE) =>
        /\ last.key \in DOMAIN pre.reservations
        /\ reservations[last.key].outbound_call_id = last.call_id
        /\ reservations =
               [pre.reservations EXCEPT ![last.key].outbound_call_id = last.call_id]
        /\ pending_updates = pre.pending_updates
        /\ SetOutboundCallId(reservations, last.key, last.call_id) = reservations

\* an accepted set_outbound_call_id replaced a different attached id on a
\* record that has been updated and has a message pending
C27_Witness ==
    /\ last.op = "set_outbound_call_id"
    /\ last.ret = TRUE
    /\ last.call_id = "out1"
    /\ pre.reservations[last.key].outbound_call_id = "in1"
    /\ reservations[last.key].outbound_call_id = "out1"
    /\ Len(reservations[last.key].status_history) > 1
    /\ \E k \in DOMAIN pending_updates : Len(pending_updates[k]) > 0

-----------------------------------------------------------------------------
(* Threaded specification of update_reservation_status under a clock that
   advances: the handlers of ConcSpec, with the statement
   reservation.updated_at = datetime.now() taken as the evaluation of
   datetime.now() followed by the attribute store, and the clock free to move
   between any two steps. *)

\* time passes
Tick ==
    /\ clock < MaxClock
    /\ clock' = clock + 1
    /\ UNCHANGED <<reservations, pending_updates, last, pre, threads>>

\* reservation.status = status
ClockSetStatus(t) ==
    /\ At(t, "set_status")
    /\ reservations' = [reservations EXCEPT ![threads[t].rid].status = threads[t].status]
    /\ threads' = [threads EXCEPT ![t].pc = "now"]
    /\ UNCHANGED <<pending_updates, clock, last, pre>>

\* datetime.now(), the right-hand side of line 121
ClockNow(t) ==
    /\ At(t, "now")
    /\ threads' = [threads EXCEPT ![t] = [@ EXCEPT !.pc = "store", !.now = clock]]
    /\ UNCHANGED <<reservations, pending_updates, clock, last, pre>>

\* reservation.updated_at = <the value just read>
ClockStoreUpdatedAt(t) ==
    /\ At(t, "store")
    /\ reservations' = [reservations EXCEPT ![threads[t].rid].updated_at = threads[t].now]
    /\ threads' = [threads EXCEPT ![t].pc = "source"]
    /\ UNCHANGED <<pending_updates, clock, last, pre>>

ClockNext ==
    \/ Tick
    \/ \E t \in 1..NThreads :
        \/ ConcBegin(t)
        \/ ConcLookup(t)
        \/ ClockSetStatus(t)
        \/ ClockNow(t)
        \/ ClockStoreUpdatedAt(t)
        \/ ConcSource(t)
        \/ ConcAddStatusHistory(t)
        \/ ConcTarget(t)
        \/ ConcCheckMailbox(t)
        \/ ConcCreateMailbox(t)
        \/ ConcAppendMessage(t)

ClockSpec == ConcInit /\ [][ClockNext]_vars

\* C28, as claimed: with a clock that never goes back, updated_at is never
\* before created_at, an accepted update leaves updated_at at the clock value
\* of that update, and no step makes updated_at smaller, also when two
\* update_reservation_status calls on the same reservation interleave.
C28_AsClaimed ==
    [][ /\ reservations'[ConcRid].updated_at >= reservations'[ConcRid].created_at
        /\ reservations'[ConcRid].updated_at >= reservations[ConcRid].updated_at ]_vars

-----------------------------------------------------------------------------
(* The booking intent (AppSpec) *)

\* the fields of a reservation given at creation that describe the booking
Intent(r) ==
    [reservation_id |-> r.reservation_id, customer_name |-> r.customer_name,
     phone_number |-> r.phone_number, restaurant_name |-> r.restaurant_name,
     restaurant_phone |-> r.restaurant_phone, date |-> r.date, time |-> r.time,
     party_size |-> r.party_size, special_requests |-> r.special_requests,
     inbound_call_id |-> r.inbound_call_id]

\* C29: no operation changes the booking intent of an existing reservation:
\* after every call each reservation that existed before it is still in the
\* table under its id, with the same id, customer name, phone number,
\* restaurant name and phone, date, time, party size, special requests and
\* inbound call id.
C29_IntentImmutable ==
    \A rid \in DOMAIN pre.reservations :
        /\ rid \in DOMAIN reservations
        /\ reservations[rid].reservation_id = rid
        /\ Intent(reservations[rid]) = Intent(pre.reservations[rid])

\* the end-of-call event has just rewritten status, details and transcript of
\* a reservation that the restaurant call had already updated
C29_Witness ==
    /\ last.op = "retell_call_webhook"
    /\ last.key \in DOMAIN pre.reservations
    /\ reservations[last.key] # pre.reservations[last.key]
    /\ reservations[last.key].transcript # pre.reservations[last.key].transcript
    /\ reservations[last.key].outbound_call_id = "out1"
    /\ Len(reservations[last.key].status_history) >= 3
    /\ Intent(reservations[last.key]) = Intent(pre.reservations[last.key])

-----------------------------------------------------------------------------
(* Specification of the narration: update_reservation_status with every
   member of ReservationStatus, from either call of one reservation whose
   restaurant call is attached. *)

NarrateDetails == DetailInputs \cup {""}
NarrateCallIds == {"out1", "in1"}

\* a completed update_reservation_status call, with all its arguments
StatusCall(rid, status, details, call_id, ret) ==
    [op |-> "update_reservation_status", key |-> rid, ret |-> ret,
     call_id |-> call_id, status |-> status, details |-> details]

NarrateInit ==
    /\ reservations = ConcReservations
    /\ pending_updates = <<>>
    /\ clock = 0
    /\ last = NoCall
    /\ pre = [reservations |-> <<>>, pending_updates |-> <<>>]
    /\ threads = <<>>

\* coordinator.update_reservation_status(rid, status, details, call_id)
NarrateUpdate ==
    \E rid \in {ConcRid}, status \in ReservationStatus,
       details \in NarrateDetails, call_id \in NarrateCallIds :
        /\ TotalUpdates(reservations) < MaxNarrated
        /\ reservations' =
               UpdateReservations(reservations, rid, status, details, call_id, clock)
        /\ pending_updates' =
               UpdatePending(reservations, pending_updates, rid, status, details, call_id)
        /\ last' = StatusCall(rid, status, details, call_id,
                              UpdateResult(reservations, rid))
        /\ pre' = Snapshot
        /\ UNCHANGED <<clock, threads>>

NarrateNext == NarrateUpdate

NarrateSpec == NarrateInit /\ [][NarrateNext]_vars

\* the statuses the restaurant call reports to the customer's call
NarratedStatuses == ReservationStatus \ {"INITIATED"}

\* the narration of a status: what is said before the detail
NarrationOf(status) == FormatStatusMessage(status, "", TRUE)

\* C30: an accepted update from the restaurant call puts one message in the
\* mailbox of the customer's call, which is the narration of the status
\* followed by the detail given; the narrations of CALLING_RESTAURANT,
\* SPEAKING_WITH_RESTAURANT, CHECKING_AVAILABILITY, CONFIRMED, DECLINED,
\* RESTAURANT_BUSY, NO_ANSWER and ERROR are pairwise different, and none is
\* the text used for a status without a narration.
C30_NarrationThenDetail ==
    /\ \A s1, s2 \in NarratedStatuses :
           /\ s1 # s2 => NarrationOf(s1) # NarrationOf(s2)
           /\ NarrationOf(s1) # NarrationOf("INITIATED")
    /\ ( /\ AcceptedUpdate(ConcRid)
         /\ last.call_id = reservations[ConcRid].outbound_call_id
         /\ last.status \in NarratedStatuses )
         => LET box == Box(pending_updates, reservations[ConcRid].inbound_call_id)
                before == Box(pre.pending_updates, reservations[ConcRid].inbound_call_id)
            IN /\ box = Append(before, NarrationOf(last.status) \o last.details)
               /\ Len(NarrationOf(last.status)) > 0

\* the restaurant call has reported two different statuses, the last one
\* ERROR with a detail, and the customer's call has two different messages
C30_Witness ==
    /\ AcceptedUpdate(ConcRid)
    /\ last.call_id = "out1"
    /\ last.status = "ERROR"
    /\ last.details = "table by the window"
    /\ LET box == Box(pending_updates, "in1")
       IN /\ Len(box) = 2
          /\ box[1] # box[2]
          /\ box[2] = "There was an issue with the booking. table by the window"

\* C31, as claimed: an accepted update from the customer's call puts the
\* detail itself, unchanged, in the mailbox of the restaurant call: no
\* template is applied to it.
C31_AsClaimed ==
    ( /\ AcceptedUpdate(ConcRid)
      /\ last.call_id = reservations[ConcRid].inbound_call_id )
        => Box(pending_updates, reservations[ConcRid].outbound_call_id) =
               Append(Box(pre.pending_updates, reservations[ConcRid].outbound_call_id),
                      last.details)

-----------------------------------------------------------------------------
(* Life of a mailbox (Spec) *)

\* C32: mailboxes are created on the first message and deleted when drained.
\* After a get_pending_updates of a call the table has no entry for it; an
\* accepted update that has a counterpart call to notify leaves an entry for
\* that call, created when missing; and between calls no entry of the table
\* holds an empty list.
C32_MailboxLazyAndDeleted ==
    /\ \A k \in DOMAIN pending_updates : Len(pending_updates[k]) > 0
    /\ last.op = "get_pending_updates" => last.key \notin DOMAIN pending_updates
    /\ \A rid \in DOMAIN reservations :
           AcceptedUpdate(rid) =>
               LET target == TargetCallId(reservations[rid], last.call_id)
               IN Truthy(target) =>
                      /\ target \in DOMAIN pending_updates
                      /\ Len(pending_updates[target]) =
                             Len(Box(pre.pending_updates, target)) + 1

\* the restaurant call reported twice: the first message was drained, which
\* deleted the mailbox, and the second report has just created it again
C32_Witness ==
    \E rid \in DOMAIN reservations :
        /\ AcceptedUpdate(rid)
        /\ last.call_id = "out1"
        /\ reservations[rid].inbound_call_id = "in1"
        /\ Len(reservations[rid].status_history) = 3
        /\ reservations[rid].status_history[2].source = "outbound_agent"
        /\ reservations[rid].status_history[3].source = "outbound_agent"
        /\ "in1" \notin DOMAIN pre.pending_updates
        /\ "in1" \in DOMAIN pending_updates
        /\ Len(pending_updates["in1"]) = 1

-----------------------------------------------------------------------------
(* The customer's call learns the outcome (PollingSpec) *)

\* message m tells the customer that the outcome is status s: it is the
\* narration of s with some detail, or the reply given for s when no message
\* is pending
ReportsOutcome(m, s) ==
    \/ /\ Len(m) >= Len(NarrationOf(s))
       /\ SubSeq(m, 1, Len(NarrationOf(s))) = NarrationOf(s)
    \/ /\ s \in {"CONFIRMED", "DECLINED"}
       /\ m = StatusFallback(StatusValue(s))

\* the last call has just brought reservation r1, made by call "in1", to the
\* terminal status s
ReachedOutcome(s) ==
    /\ last.op \in {"reservation_confirmed_by_restaurant",
                    "reservation_declined_by_restaurant", "restaurant_line_busy",
                    "restaurant_no_answer", "retell_call_webhook"}
    /\ last.key = ConcRid
    /\ Grew(ConcRid)
    /\ reservations[ConcRid].inbound_call_id = "in1"
    /\ reservations[ConcRid].status = s

\* a poll of "in1" has just returned a message that reports outcome s
PollReported(s) ==
    /\ last.op = "check_reservation_status_updates"
    /\ last.key = "in1"
    /\ ReportsOutcome(last.ret, s)

\* C33, as claimed: when a reservation of the customer's call reaches
\* CONFIRMED, DECLINED, RESTAURANT_BUSY, NO_ANSWER or ERROR and that call
\* keeps polling check_reservation_status_updates, some later poll returns a
\* message that reports this outcome.
C33_AsClaimed ==
    \A s \in TerminalStatuses : ReachedOutcome(s) ~> PollReported(s)

-----------------------------------------------------------------------------
(* Outcomes of make_reservation_call (AppSpec) *)

\* the last call was a create_new_reservation or make_reservation_call that
\* found the restaurant and whose call-initiation request failed
InitiationFailed ==
    /\ last.op \in {"create_new_reservation", "make_reservation_call"}
    /\ last.key # NoneVal
    /\ last.ret \in {MakeCallMessage(name, outcome) :
                        name \in CustomerNames,
                        outcome \in InitiationOutcomes \ {"created"}}

\* C34: when the call-initiation request fails (an error answer or an
\* exception), the reservation created for it has status INITIATED and a
\* history of one entry, its outbound call id is unset, and no mailbox has
\* gained a message.
C34_FailedInitiationLeavesInitiated ==
    InitiationFailed =>
        /\ last.key \in DOMAIN reservations \ DOMAIN pre.reservations
        /\ reservations[last.key].status = "INITIATED"
        /\ Len(reservations[last.key].status_history) = 1
        /\ reservations[last.key].status_history[1].status = "initiated"
        /\ reservations[last.key].outbound_call_id = NoneVal
        /\ pending_updates = pre.pending_updates

\* a second reservation of the same call failed to start while a message
\* about the first one was pending
C34_Witness ==
    /\ InitiationFailed
    /\ last.op = "create_new_reservation"
    /\ last.key = RidOf(2)
    /\ reservations[last.key].inbound_call_id = "in1"
    /\ "in1" \in DOMAIN pending_updates
    /\ Len(pending_updates["in1"]) = 1

\* the last call was a create_new_reservation whose call-initiation request
\* was accepted
InitiationSucceeded ==
    /\ last.op = "create_new_reservation"
    /\ last.key # NoneVal
    /\ last.ret \in {MakeCallMessage(name, "created") : name \in CustomerNames}

\* C35: after a successful create_new_reservation from call "in1" the new
\* record has inbound call "in1", the outbound call id the service returned,
\* status CALLING_RESTAURANT and a history of exactly two entries (initiated
\* from system, then calling_restaurant from outbound_agent), and the mailbox
\* of "in1" has gained exactly one message.
C35_SuccessfulCreate ==
    InitiationSucceeded =>
        /\ last.key \in DOMAIN reservations \ DOMAIN pre.reservations
        /\ LET r == reservations[last.key]
               h == r.status_history
           IN /\ r.inbound_call_id = "in1"
              /\ r.outbound_call_id = "out1"
              /\ r.status = "CALLING_RESTAURANT"
              /\ Len(h) = 2
              /\ h[1].status = "initiated" /\ h[1].source = "system"
              /\ h[2].status = "calling_restaurant" /\ h[2].source = "outbound_agent"
        /\ Len(Box(pending_updates, "in1")) = Len(Box(pre.pending_updates, "in1")) + 1
        /\ IsPrefix(Box(pre.pending_updates, "in1"), Box(pending_updates, "in1"))
        /\ \A k \in (DOMAIN pending_updates \cup DOMAIN pre.pending_updates) \ {"in1"} :
               Box(pending_updates, k) = Box(pre.pending_updates, k)

\* a second reservation of call "in1" was started while the message about
\* the first one was still pending
C35_Witness ==
    /\ InitiationSucceeded
    /\ last.key = RidOf(2)
    /\ reservations[RidOf(1)].inbound_call_id = "in1"
    /\ Len(Box(pre.pending_updates, "in1")) = 1
    /\ Len(Box(pending_updates, "in1")) = 2

-----------------------------------------------------------------------------
(* Where an update is delivered (Spec) *)

\* C36, as claimed: an accepted update_reservation_status never adds a
\* message to the mailbox of the call that made the update, also when the
\* reservation's inbound and outbound call ids are equal.
C36_AsClaimed ==
    \A rid \in DOMAIN reservations :
        AcceptedUpdate(rid) =>
            Box(pending_updates, last.call_id) = Box(pre.pending_updates, last.call_id)

\* the calls whose mailbox the last call changed
ChangedBoxes ==
    {k \in DOMAIN pending_updates \cup DOMAIN pre.pending_updates :
        Box(pending_updates, k) # Box(pre.pending_updates, k)}

\* C37: an accepted update_reservation_status on a reservation changes that
\* record only and at most one mailbox, the one of the reservation's other
\* call: every other record and every other mailbox is as before.  The reads
\* check_reservation_status and get_reservation_details change no record and
\* no mailbox.
C37_UpdateFrame ==
    /\ \A rid \in DOMAIN reservations :
           AcceptedUpdate(rid) =>
               LET r == reservations[rid] IN
               /\ DOMAIN reservations = DOMAIN pre.reservations
               /\ \A other \in DOMAIN reservations \ {rid} :
                      reservations[other] = pre.reservations[other]
               /\ Cardinality(ChangedBoxes) <= 1
               /\ ChangedBoxes \subseteq {r.inbound_call_id, r.outbound_call_id}
               /\ (last.call_id = r.outbound_call_id /\ last.call_id # r.inbound_call_id)
                      => ChangedBoxes \subseteq {r.inbound_call_id}
               /\ (last.call_id = r.inbound_call_id /\ last.call_id # r.outbound_call_id)
                      => ChangedBoxes \subseteq {r.outbound_call_id}
    /\ last.op \in {"check_reservation_status", "get_reservation_details"} =>
           /\ reservations = pre.reservations
           /\ pending_updates = pre.pending_updates

\* an update from the outbound call of one of two reservations has just
\* added a message to a mailbox that already held one
C37_Witness ==
    \E rid \in DOMAIN reservations :
        /\ AcceptedUpdate(rid)
        /\ Cardinality(DOMAIN reservations) = 2
        /\ last.call_id = "out1"
        /\ reservations[rid].outbound_call_id = "out1"
        /\ ChangedBoxes = {reservations[rid].inbound_call_id}
        /\ reservations[rid] # pre.reservations[rid]

-----------------------------------------------------------------------------
(* Events the webhook does not act on (AppSpec) *)

\* the last request was a webhook event that is not a call_ended of a
\* restaurant reservation, or that names no reservation of the table
IgnoredEvent ==
    /\ last.op = "retell_call_webhook"
    /\ \/ last.event # "call_ended"
       \/ last.type # "restaurant_reservation"
       \/ last.key = NoneVal
       \/ last.key \notin DOMAIN pre.reservations

\* C38: a webhook event that is not call_ended, whose metadata type is not
\* restaurant_reservation, that carries no reservation id or that names a
\* reservation id not in the table leaves every record and every mailbox as
\* it was and is answered with status ok.
C38_IgnoredEventChangesNothing ==
    IgnoredEvent =>
        /\ reservations = pre.reservations
        /\ pending_updates = pre.pending_updates
        /\ last.ret = "ok"

\* a call_ended event of another type named a reservation that the
\* restaurant call had updated and whose message was still pending
C38_Witness ==
    /\ IgnoredEvent
    /\ last.event = "call_ended"
    /\ last.type = "other"
    /\ last.key \in DOMAIN reservations
    /\ Len(reservations[last.key].status_history) >= 2
    /\ reservations[last.key].transcript = ""
    /\ \E k \in DOMAIN pending_updates : Len(pending_updates[k]) > 0

-----------------------------------------------------------------------------
(* The reservation a poll falls back on (AppSpec) *)

\* the reservations made by call call_id
MadeBy(res, call_id) == {rid \in DOMAIN res : res[rid].inbound_call_id = call_id}

\* the one created last among them (ids are handed out in order of creation)
MostRecentMadeBy(res, call_id) ==
    CHOOSE rid \in MadeBy(res, call_id) :
        \E n \in 1..Cardinality(DOMAIN res) :
            /\ rid = RidOf(n)
            /\ \A m \in (n + 1)..Cardinality(DOMAIN res) :
                   RidOf(m) \notin MadeBy(res, call_id)

====
